---- MODULE Spec2Model ----
(***************************************************************************)
(* Model of src/ad_engine.py: the AdEngine decision network.               *)
(*                                                                         *)
(* AdEngine.__init__ stores the decision variables, the utility map and    *)
(* the dataset, learns the network and precomputes the candidate domain of *)
(* every decision variable.  AdEngine.decide enumerates the Cartesian      *)
(* product of the candidate domains, queries the network once per          *)
(* candidate and keeps the candidate of greatest expected utility.         *)
(*                                                                         *)
(* Modelling choices                                                       *)
(*  - the dataset is a sequence of rows over the columns Names;            *)
(*  - the learned network is the one of the fully connected structure, so  *)
(*    that its exact posterior is the conditional relative frequency of    *)
(*    the rows that agree with the evidence; a query whose evidence no row *)
(*    supports (zero prior probability) raises;                            *)
(*  - probabilities and utilities are exact rationals [n, d] in lowest     *)
(*    terms, -math.inf is the rational with denominator 0;                 *)
(*  - a Python dict is a function from its keys; None is NoneVal.          *)
(***************************************************************************)
EXTENDS Integers, Sequences, FiniteSets, TLC

\* ------------------------------------------------------------ bounds
\* Greatest number of rows of the dataset file.
MaxRows == 2

\* Columns of the csv header (self.data.dtype.names), in file order.
Names == <<"Ad1", "Ad2", "S">>

\* Integer codes a cell of the dataset may hold.
Values == {0, 1}

\* Utility scores a utility map may give.
Scores == {-1, 2}

\* Variables the caller may give as evidence (decision variables included).
EvidenceVars == {"Ad1", "Ad2"}

\* Decision variable lists the engine may be built with.
DecVarLists == {<< >>, <<"Ad1">>, <<"Ad2">>, <<"Ad1", "Ad2">>, <<"Ad2", "Ad1">>}

\* ------------------------------------------------------------ state
VARIABLES
    data,                   \* self.data: the rows of the dataset
    dec_vars,               \* self.dec_vars
    util_map,               \* self.util_map
    dec_vars_permutations,  \* self.dec_vars_permutations
    pc,                     \* position of the current decide call
    evidence,               \* decide's argument
    combos,                 \* the candidates the product iterator has yet to yield
    actions,                \* the candidate of the last iteration
    total_evidence,         \* the evidence of the last posterior query
    possible_util,          \* the expected utility of the last iteration
    best_combo,             \* the tracked best candidate
    best_util,              \* the tracked best expected utility
    result,                 \* what the last finished call returned or raised
    prev_result             \* history: what the call before returned or raised, when
                            \* it was given the same evidence as the current one

config == <<data, dec_vars, util_map, dec_vars_permutations>>
vars == <<data, dec_vars, util_map, dec_vars_permutations, pc, evidence, combos,
          actions, total_evidence, possible_util, best_combo, best_util, result,
          prev_result>>

\* ------------------------------------------------------------ values
\* Python's None.
NoneVal == [None |-> TRUE]

\* The empty dict.
EmptyDict == [k \in {} |-> 0]

SeqRange(s) == {s[i] : i \in 1..Len(s)}

Abs(x) == IF x < 0 THEN -x ELSE x

RECURSIVE Gcd(_, _)
Gcd(a, b) == IF b = 0 THEN a ELSE Gcd(b, a % b)

\* A rational in lowest terms with a positive denominator.
Norm(n, d) ==
    LET g == Gcd(Abs(n), Abs(d))
        s == IF d < 0 THEN -1 ELSE 1
    IN  IF n = 0 THEN [n |-> 0, d |-> 1]
        ELSE [n |-> s * (n \div g), d |-> s * (d \div g)]

Add(a, b) == Norm(a.n * b.d + b.n * a.d, a.d * b.d)

Mul(a, b) == Norm(a.n * b.n, a.d * b.d)

OfInt(i) == [n |-> i, d |-> 1]

\* -math.inf
NegInf == [n |-> -1, d |-> 0]

\* a > b on floats, b possibly -math.inf
Greater(a, b) ==
    IF a.d = 0 THEN FALSE
    ELSE IF b.d = 0 THEN TRUE
    ELSE a.n * b.d > b.n * a.d

\* ------------------------------------------------------------ dicts
\* dict.copy()
Copy(d) == [k \in DOMAIN d |-> d[k]]

\* d.update(e): e's value wherever both have the key
Update(d, e) ==
    [k \in (DOMAIN d) \cup (DOMAIN e) |-> IF k \in DOMAIN e THEN e[k] ELSE d[k]]

\* ------------------------------------------------------------ __init__
\* self.data[d]: the column of variable d, in row order
Column(rows, d) == [i \in 1..Len(rows) |-> rows[i][d]]

RECURSIVE Ascending(_)
Ascending(S) ==
    IF S = {} THEN << >>
    ELSE LET m == CHOOSE x \in S : \A y \in S : x <= y
         IN  <<m>> \o Ascending(S \ {m})

RECURSIVE FirstObserved(_)
\* Mutant of NpUnique: the distinct values in the order the rows first show them.
FirstObserved(col) ==
    IF col = << >> THEN << >>
    ELSE LET init == FirstObserved(SubSeq(col, 1, Len(col) - 1))
             last == col[Len(col)]
         IN  IF last \in SeqRange(init) THEN init ELSE Append(init, last)

\* list(np.unique(column)): the distinct values, sorted ascending
NpUnique(col) == Ascending(SeqRange(col))

\* [list(np.unique(self.data[d])) for d in dec_vars]
DecVarsPermutations(rows, dvs) ==
    [i \in 1..Len(dvs) |-> NpUnique(Column(rows, dvs[i]))]

\* ------------------------------------------------------------ decide
RECURSIVE Product(_)
\* itertools.product(*doms): every tuple once, the last domain varying fastest
Product(doms) ==
    IF doms = << >> THEN << << >> >>
    ELSE LET rest == Product(Tail(doms))
             RECURSIVE From(_)
             From(i) ==
                 IF i > Len(Head(doms)) THEN << >>
                 ELSE [j \in 1..Len(rest) |-> <<Head(doms)[i]>> \o rest[j]] \o From(i + 1)
         IN  From(1)

\* best_combo, best_util = None, -math.inf
InitialBestCombo == NoneVal

\* Mutant of InitialBestUtil: the value the call before left behind.
StaleBestUtil == best_util

InitialBestUtil == NegInf

\* Mutant of NewCombos: no candidate at all without decision variables.
NewCombosNoneWithoutVars ==
    IF dec_vars_permutations = << >> THEN << >> ELSE Product(dec_vars_permutations)

\* combos = itertools.product(*self.dec_vars_permutations)
NewCombos == Product(dec_vars_permutations)

\* list(self.util_map.keys())[0]
UtilKey == CHOOSE k \in DOMAIN util_map : TRUE

\* self.data.dtype.names.index(...)
UtilIndex == CHOOSE i \in 1..Len(Names) : Names[i] = UtilKey

\* the loop over i that fills actions from combo
ActionsOf(combo) ==
    [k \in {dec_vars[i] : i \in 1..Len(dec_vars_permutations)} |->
        combo[CHOOSE i \in 1..Len(dec_vars_permutations) : dec_vars[i] = k]]

\* total_evidence = actions.copy(); total_evidence.update(evidence)
TotalEvidence(acts, ev) == Update(Copy(acts), ev)

\* The rows of the dataset that agree with the evidence.
Matching(total) ==
    {i \in 1..Len(data) : \A k \in DOMAIN total : data[i][k] = total[k]}

\* Whether the network gives the evidence a nonzero prior probability.
Supported(total) == Matching(total) # {}

\* self.network.predict_proba(total): per column, the posterior marginal over the
\* values observed for that column
PredictProba(total) ==
    [i \in 1..Len(Names) |->
        [v \in SeqRange(Column(data, Names[i])) |->
            Norm(Cardinality({r \in Matching(total) : data[r][Names[i]] = v}),
                 Cardinality(Matching(total)))]]

\* Mutant of InitialPossibleUtil: the sum of the candidate before is kept.
StalePossibleUtil == possible_util

\* possible_util = 0
InitialPossibleUtil == OfInt(0)

\* Mutant of Lookup: a missing score counts 0.
LookupOrZero(name, val) ==
    IF name \in DOMAIN util_map /\ val \in DOMAIN util_map[name]
    THEN [found |-> TRUE, score |-> util_map[name][val]]
    ELSE [found |-> TRUE, score |-> 0]

\* self.util_map[name][val]: the score, or a KeyError (found = FALSE)
Lookup(name, val) ==
    IF name \in DOMAIN util_map /\ val \in DOMAIN util_map[name]
    THEN [found |-> TRUE, score |-> util_map[name][val]]
    ELSE [found |-> FALSE, score |-> 0]

\* Whether the lookup finds a score for every val of util_prob.
HasScores(util_prob, name) ==
    \A val \in DOMAIN util_prob : Lookup(name, val).found

RECURSIVE Accumulate(_, _, _, _)
\* possible_util += util[val] * self.util_map[name][val], val by val
Accumulate(acc, util_prob, name, vals) ==
    IF vals = << >> THEN acc
    ELSE Accumulate(Add(acc, Mul(util_prob[Head(vals)], OfInt(Lookup(name, Head(vals)).score))),
                    util_prob, name, Tail(vals))

\* the value of possible_util when the inner loops end
PossibleUtil(util_prob) ==
    Accumulate(InitialPossibleUtil, util_prob, Names[UtilIndex],
               Ascending(DOMAIN util_prob))

\* Mutant of Improves: >= in place of >.
ImprovesOrTies(possible, best) == ~Greater(best, possible)

\* if (possible_util > best_util)
Improves(possible, best) == Greater(possible, best)

\* Mutant of Tracked: the combined evidence is kept in place of the candidate.
TrackedTotal(acts, total) == total

\* best_combo = actions
Tracked(acts, total) == acts

\* Mutant of AfterQueryFailure: the failed candidate is skipped.
AfterQueryFailureSkip == "skip"

\* predict_proba is called outside any try: its exception leaves decide
AfterQueryFailure == "raise"

NoResult == [kind |-> "none", value |-> NoneVal, error |-> ""]

Returned(v) == [kind |-> "return", value |-> v, error |-> ""]

Raised(e) == [kind |-> "raise", value |-> NoneVal, error |-> e]

\* ------------------------------------------------------------ actions
Rows == [SeqRange(Names) -> Values]

Datasets == UNION {[1..n -> Rows] : n \in 1..MaxRows}

Tables == UNION {[D -> Scores] : D \in SUBSET Values}

UtilMaps == [{"S"} -> Tables]

Evidences == UNION {[D -> Values] : D \in SUBSET EvidenceVars}

\* AdEngine(data_file, structure, dec_vars, util_map)
Init ==
    /\ data \in Datasets
    /\ dec_vars \in DecVarLists
    /\ util_map \in UtilMaps
    /\ dec_vars_permutations = DecVarsPermutations(data, dec_vars)
    /\ pc = "idle"
    /\ evidence = EmptyDict
    /\ combos = << >>
    /\ actions = EmptyDict
    /\ total_evidence = EmptyDict
    /\ possible_util = OfInt(0)
    /\ best_combo = NoneVal
    /\ best_util = NegInf
    /\ result = NoResult
    /\ prev_result = NoResult

\* decide(e) is called: the statements before the loop
Decide(e) ==
    /\ pc \in {"idle", "returned", "raised"}
    /\ pc' = "loop"
    /\ evidence' = e
    /\ best_combo' = InitialBestCombo
    /\ best_util' = InitialBestUtil
    /\ combos' = NewCombos
    /\ actions' = EmptyDict
    /\ total_evidence' = EmptyDict
    /\ possible_util' = OfInt(0)
    /\ result' = NoResult
    /\ prev_result' = IF pc # "idle" /\ e = evidence THEN result ELSE NoResult
    /\ UNCHANGED config

\* one pass of "for combo in combos"
Iterate ==
    /\ pc = "loop"
    /\ combos # << >>
    /\ LET acts == ActionsOf(Head(combos))
           total == TotalEvidence(acts, evidence)
           util_prob == PredictProba(total)[UtilIndex]
           possible == PossibleUtil(util_prob)
       IN  /\ combos' = Tail(combos)
           /\ actions' = acts
           /\ total_evidence' = total
           /\ IF ~Supported(total) /\ AfterQueryFailure = "raise"
              THEN /\ pc' = "raised"
                   /\ result' = Raised("ZeroProbabilityEvidence")
                   /\ UNCHANGED <<possible_util, best_combo, best_util>>
              ELSE IF ~Supported(total)
              THEN /\ pc' = "loop"
                   /\ UNCHANGED <<possible_util, best_combo, best_util, result>>
              ELSE IF ~HasScores(util_prob, Names[UtilIndex])
              THEN /\ pc' = "raised"
                   /\ result' = Raised("KeyError")
                   /\ UNCHANGED <<possible_util, best_combo, best_util>>
              ELSE /\ pc' = "loop"
                   /\ possible_util' = possible
                   /\ best_combo' = IF Improves(possible, best_util)
                                   THEN Tracked(acts, total) ELSE best_combo
                   /\ best_util' = IF Improves(possible, best_util) THEN possible ELSE best_util
                   /\ UNCHANGED result
    /\ UNCHANGED <<config, evidence, prev_result>>

\* return best_combo
Return ==
    /\ pc = "loop"
    /\ combos = << >>
    /\ pc' = "returned"
    /\ result' = Returned(best_combo)
    /\ UNCHANGED <<config, evidence, combos, actions, total_evidence, possible_util,
                   best_combo, best_util, prev_result>>

Next ==
    \/ \E e \in Evidences : Decide(e)
    \/ Iterate
    \/ Return

Spec == Init /\ [][Next]_vars

\* ------------------------------------------------------------ properties
\* The last call returned or raised.
Finished == pc \in {"returned", "raised"}

\* The current call has run at least one pass of its loop.
Queried == pc # "idle" /\ Len(combos) < Len(NewCombos)

\* The expected utility the network and the utility map give to an evidence set.
ExpectedUtility(total) == PossibleUtil(PredictProba(total)[UtilIndex])

\* The combined evidence in which the candidate's values take precedence.
DecisionFirst(d, e) == Update(e, d)

\* C1 (optimality): when decide returns for a non-empty decision variable list
\* and every candidate, merged with the evidence, has a defined posterior, no
\* candidate of the Cartesian product has a greater expected utility than the
\* returned assignment, each taken for the candidate merged with the evidence
\* (the candidate's values first, as C2 states the merge).
C1_Optimality ==
    (/\ pc = "returned"
     /\ dec_vars # << >>
     /\ result.value # NoneVal
     /\ \A i \in 1..Len(NewCombos) :
            Supported(DecisionFirst(ActionsOf(NewCombos[i]), evidence)))
    => \A i \in 1..Len(NewCombos) :
            ~Greater(ExpectedUtility(DecisionFirst(ActionsOf(NewCombos[i]), evidence)),
                     ExpectedUtility(DecisionFirst(result.value, evidence)))

\* C2 (evidence precedence): the evidence passed to the posterior query of a
\* candidate holds the candidate's value for every key the candidate and the
\* caller's evidence share, and every other key of either unchanged.
C2_CandidatePrecedence ==
    Queried => total_evidence = DecisionFirst(actions, evidence)

\* The expected utility the loop computes for the i-th candidate of the product.
LoopUtility(i) == ExpectedUtility(TotalEvidence(ActionsOf(NewCombos[i]), evidence))

\* The evidence names no decision variable.
NoCollision == (DOMAIN evidence) \cap SeqRange(dec_vars) = {}

\* C3 (tie-break stability): the returned assignment is the first candidate of
\* the enumeration whose expected utility is maximal, so of several candidates
\* that tie for the maximum the one enumerated first is returned; and a pass of
\* the loop replaces the tracked best only when its expected utility is strictly
\* greater than the best seen so far.
C3_FirstMaximalWins ==
    /\ [](pc = "returned" /\ result.value # NoneVal =>
            \E i \in 1..Len(NewCombos) :
                /\ ActionsOf(NewCombos[i]) = result.value
                /\ \A j \in 1..Len(NewCombos) :
                      /\ ~Greater(LoopUtility(j), LoopUtility(i))
                      /\ j < i => Greater(LoopUtility(i), LoopUtility(j)))
    /\ [][(pc = "loop" /\ pc' = "loop"
            /\ (best_combo' # best_combo \/ best_util' # best_util))
          => /\ Greater(possible_util', best_util)
             /\ best_combo' = actions'
             /\ best_util' = possible_util']_vars

\* C3 witness: decide returned the first of two candidates that tie for the
\* maximum, on evidence that names no decision variable.
C3_Witness ==
    /\ pc = "returned"
    /\ NoCollision
    /\ \E i, j \in 1..Len(NewCombos) :
          /\ i < j
          /\ ActionsOf(NewCombos[i]) = result.value
          /\ LoopUtility(j) = LoopUtility(i)

\* C4 (output membership): whenever decide returns, the returned value is not
\* None, its keys are exactly the declared decision variables, and its value for
\* each decision variable is one of the values observed for it in the dataset.
C4_OutputMembership ==
    pc = "returned" =>
        /\ result.kind = "return"
        /\ result.value # NoneVal
        /\ DOMAIN result.value = SeqRange(dec_vars)
        /\ \A i \in 1..Len(dec_vars) :
              result.value[dec_vars[i]] \in SeqRange(Column(data, dec_vars[i]))

\* C4 witness: decide returned for evidence that names a decision variable and
\* another variable.
C4_Witness ==
    /\ pc = "returned"
    /\ dec_vars # << >>
    /\ ~NoCollision
    /\ (DOMAIN evidence) \ SeqRange(dec_vars) # {}

\* The utility map has a score for every observed value of its parent variable.
Covered == SeqRange(Column(data, UtilKey)) \subseteq DOMAIN util_map[UtilKey]

\* C5 as stated (empty decision variable list): every decide call of an engine
\* without decision variables fails with NoDecisionVariablesError.
C5_RaisesNoDecisionVariables ==
    (dec_vars = << >> /\ Finished) => result = Raised("NoDecisionVariablesError")

\* C5 as amended: without decision variables decide evaluates the one empty
\* candidate on the evidence alone; it returns the empty assignment when that
\* posterior query succeeds and the utility map covers the parent's domain, and
\* otherwise raises the query's failure or the KeyError of the missing score.
C5_ReturnsEmptyAssignment ==
    (dec_vars = << >> /\ Finished) =>
        result = IF Matching(evidence) = {} THEN Raised("ZeroProbabilityEvidence")
                 ELSE IF ~Covered THEN Raised("KeyError")
                 ELSE Returned(EmptyDict)

\* C5 witness: an engine without decision variables returned for some evidence.
C5_Witness ==
    /\ dec_vars = << >>
    /\ pc = "returned"
    /\ evidence # EmptyDict
    /\ result.value = EmptyDict

C7_MissingScoreCountsZero ==
    (/\ ~Covered
     /\ Finished
     /\ \A i \in 1..Len(NewCombos) :
            Matching(TotalEvidence(ActionsOf(NewCombos[i]), evidence)) # {})
    => pc = "returned"

\* C7 as amended: when the utility map lacks a score for a value of its
\* parent's domain, decide never returns: it raises in the pass of the first
\* candidate, the KeyError of the lookup when that candidate's posterior query
\* succeeds and the query's own failure otherwise.
C7_MissingScoreRaises ==
    ~Covered =>
        /\ pc # "returned"
        /\ pc = "raised" =>
              /\ Len(combos) + 1 = Len(NewCombos)
              /\ best_combo = NoneVal
              /\ result = IF Matching(total_evidence) = {}
                          THEN Raised("ZeroProbabilityEvidence")
                          ELSE Raised("KeyError")

\* C7 witness: the lookup raised for a value that has posterior probability 0
\* under the candidate's evidence, while the map scores the other value.
C7_Witness ==
    /\ pc = "raised"
    /\ result.error = "KeyError"
    /\ DOMAIN util_map[UtilKey] # {}
    /\ \E v \in SeqRange(Column(data, UtilKey)) \ DOMAIN util_map[UtilKey] :
          \A r \in Matching(total_evidence) : data[r][UtilKey] # v

RECURSIVE SumScores(_)
\* The sum, over a set of rows, of the score of the row's utility-parent value.
SumScores(rs) ==
    IF rs = {} THEN 0
    ELSE LET r == CHOOSE x \in rs : TRUE
         IN  util_map[UtilKey][data[r][UtilKey]] + SumScores(rs \ {r})

\* The mean score of the rows that agree with an evidence set: the sum over v of
\* P(parent = v | evidence) * score(v).
MeanScore(total) == Norm(SumScores(Matching(total)), Cardinality(Matching(total)))

RECURSIVE Scan(_, _, _, _)
\* decide as a function of the configuration and the evidence alone: a left to
\* right fold over the candidates.
Scan(cs, e, bc, bu) ==
    IF cs = << >> THEN Returned(bc)
    ELSE LET acts == ActionsOf(Head(cs))
             total == Update(acts, e)
         IN  IF Matching(total) = {} THEN Raised("ZeroProbabilityEvidence")
             ELSE IF ~Covered THEN Raised("KeyError")
             ELSE IF Greater(MeanScore(total), bu)
                  THEN Scan(Tail(cs), e, acts, MeanScore(total))
                  ELSE Scan(Tail(cs), e, bc, bu)

DecideOf(e) == Scan(Product(dec_vars_permutations), e, NoneVal, NegInf)

\* C8 (determinism and history independence): no decide call changes the
\* engine's configuration, and the outcome of every call, whatever calls came
\* before it, is the function DecideOf of the configuration and of its own
\* evidence; in particular a call given the same evidence as the call before it
\* has the same outcome.
C8_HistoryIndependent ==
    /\ [](Finished => result = DecideOf(evidence))
    /\ [](Finished /\ prev_result # NoResult => result = prev_result)
    /\ [][config' = config]_vars

\* C8 witness: a call returned an assignment after an earlier call with the same
\* evidence had returned.
C8_Witness ==
    /\ pc = "returned"
    /\ prev_result.kind = "return"
    /\ Len(NewCombos) > 1
    /\ evidence # EmptyDict

\* The place of value v in the list dom.
Pos(dom, v) == CHOOSE i \in 1..Len(dom) : dom[i] = v

\* Tuple s comes before tuple t: at the first place they differ, s holds the
\* value that comes earlier in that place's candidate domain.
Before(s, t) ==
    \E i \in 1..Len(dec_vars_permutations) :
        /\ \A h \in 1..(i - 1) : s[h] = t[h]
        /\ Pos(dec_vars_permutations[i], s[i]) < Pos(dec_vars_permutations[i], t[i])

RECURSIVE SizeOfProduct(_)
SizeOfProduct(doms) ==
    IF doms = << >> THEN 1 ELSE Len(Head(doms)) * SizeOfProduct(Tail(doms))

\* The loop walks the Cartesian product of the candidate domains once, in the
\* order of the declared decision variables, the last one varying fastest.
WalksProductInOrder ==
    /\ Len(NewCombos) = SizeOfProduct(dec_vars_permutations)
    /\ \A j \in 1..Len(NewCombos) :
          /\ Len(NewCombos[j]) = Len(dec_vars)
          /\ \A i \in 1..Len(dec_vars) :
                NewCombos[j][i] \in SeqRange(dec_vars_permutations[i])
    /\ \A j, k \in 1..Len(NewCombos) : j < k => Before(NewCombos[j], NewCombos[k])
    /\ pc = "loop" =>
          combos = SubSeq(NewCombos, Len(NewCombos) - Len(combos) + 1, Len(NewCombos))
    /\ pc = "returned" => combos = << >>
    /\ Queried =>
          \A i \in 1..Len(dec_vars) :
              actions[dec_vars[i]] = NewCombos[Len(NewCombos) - Len(combos)][i]

\* C9 as stated (enumeration order): the candidate domain of each decision
\* variable holds the distinct values observed for it, each once, in
\* first-observed order, and the loop walks their product in declared order.
C9_FirstObservedDomains ==
    /\ Len(dec_vars_permutations) = Len(dec_vars)
    /\ \A i \in 1..Len(dec_vars) :
          dec_vars_permutations[i] = FirstObserved(Column(data, dec_vars[i]))
    /\ WalksProductInOrder

\* C9 as amended: the candidate domain of each decision variable holds the
\* distinct values observed for it, each once, in ascending numeric order, and
\* the loop walks their product in declared order, the last variable fastest,
\* every combination once.
C9_AscendingDomains ==
    /\ Len(dec_vars_permutations) = Len(dec_vars)
    /\ \A i \in 1..Len(dec_vars) :
          /\ SeqRange(dec_vars_permutations[i]) = SeqRange(Column(data, dec_vars[i]))
          /\ \A j, k \in 1..Len(dec_vars_permutations[i]) :
                j < k => dec_vars_permutations[i][j] < dec_vars_permutations[i][k]
    /\ WalksProductInOrder

\* C9 witness: decide walked all four combinations of two decision variables
\* whose values the dataset shows in descending order.
C9_Witness ==
    /\ pc = "returned"
    /\ Len(NewCombos) = 4
    /\ \A i \in 1..Len(dec_vars) :
          dec_vars_permutations[i] # FirstObserved(Column(data, dec_vars[i]))

\* C10 (expected utility): the utility a pass leaves in possible_util is the
\* sum over the utility parent's values v of P(parent = v | the evidence of
\* that pass's query) * score(v), nothing carried over from the pass before; and
\* the tracked best utility is that sum for the tracked best candidate.
C10_ExpectedUtility ==
    /\ (pc \in {"loop", "returned"} /\ Queried) =>
            possible_util = MeanScore(total_evidence)
    /\ (pc # "idle" /\ best_combo # NoneVal) =>
            best_util = MeanScore(TotalEvidence(best_combo, evidence))
    /\ best_combo = NoneVal => best_util = NegInf

\* C10 witness: the second candidate was given a utility below the first one's,
\* on evidence that names no decision variable.
C10_Witness ==
    /\ pc = "loop"
    /\ NoCollision
    /\ Len(combos) + 2 <= Len(NewCombos)
    /\ Greater(best_util, possible_util)

====
